---- MODULE Spec2Model ----
(***************************************************************************)
(* Tomorrow's Movers Screener: the filter -> score -> summarize pipeline   *)
(* of screener.py, as driven by screen_movers (screener.py) and by the     *)
(* Streamlit page (app.py).                                                *)
(*                                                                         *)
(* Numbers.  Every float of the program that carries two decimals          *)
(* (prices, percentage changes, ratios, scores, averages) is modelled as   *)
(* the integer number of hundredths: 3.0 is 300, 22.5 is 2250, and the     *)
(* multiplier 1.5 is 150.  Arithmetic is exact and round(x, 2) is          *)
(* round-half-to-even, which is what numpy's round does on the decimal     *)
(* value; binary floating-point representation error is not modelled.      *)
(*                                                                         *)
(* DataFrames.  A DataFrame is an object on a heap: a set of column names  *)
(* and a sequence of rows, each row a record holding its index label and   *)
(* one field per column.  Variables of the program hold references         *)
(* (object ids), so that aliasing and in-place modification are visible.   *)
(***************************************************************************)
EXTENDS Integers, Sequences, FiniteSets, TLC

VARIABLES
    heap,         \* object id -> DataFrame (or NoFrame when not allocated)
    df,           \* reference: the snapshot returned by get_market_data
    filtered_df,  \* reference: the table handed to _calculate_momentum_score
    results_df,   \* reference: the table _calculate_momentum_score returned
    criteria,     \* (min_volume_ratio, min_price_change_1d, max_price_change_1d)
    summary,      \* what get_screening_summary returned
    pc,           \* position of the pipeline
    tasks,        \* get_market_data: per requested symbol, Pending or its outcome
    completed,    \* get_market_data: task positions in the order they finished
    raised,       \* the exception that reached the caller, or NoError
    cache,        \* st.cache_data entry of load_raw_market_data, or NoEntry
    last_load     \* what the last load_raw_market_data call did

\* The variables of the batch fetch and of the page's snapshot cache.
fetchVars == <<tasks, completed, raised>>
cacheVars == <<cache, last_load>>

vars == <<heap, df, filtered_df, results_df, criteria, summary, pc,
          tasks, completed, raised, cache, last_load>>

----------------------------------------------------------------------------
(* Bounds of the model *)

\* Largest number of rows of a snapshot table.
MaxRows == 3

----------------------------------------------------------------------------
(* Values *)

NoFrame == [none |-> "frame"]
NoRef == "null"
NoSummary == [none |-> "summary"]
NoCriteria == [none |-> "criteria"]
NoError == "none"
NoEntry == [none |-> "entry"]
NoLoad == "none"

\* The allocation sites of DataFrame objects, used as object ids: the frame
\* the provider builds, the copy made from the filtered rows, and the frame
\* sort_values builds.
ObjIds == {"snapshot", "copy", "sorted"}

SnapshotColumns ==
    {"symbol", "current_price", "price_change_1d", "price_change_7d",
     "volume_24h", "avg_volume_7d", "volume_ratio"}

ScoreColumns == {"trend_consistency", "momentum_score"}

Abs(x) == IF x < 0 THEN -x ELSE x

\* round(num / den) to the nearest integer, ties to the even one (den > 0).
RoundHalfEven(num, den) ==
    LET q == num \div den
        r == num % den
    IN  IF 2 * r < den THEN q
        ELSE IF 2 * r > den THEN q + 1
        ELSE IF q % 2 = 0 THEN q ELSE q + 1

\* One entry of the list a provider turns into the snapshot DataFrame; the
\* provider computes volume_ratio as round(volume / average volume, 2).
MarketRow(symbol, price, change_1d, change_7d, volume, avg_volume) ==
    [symbol          |-> symbol,
     current_price   |-> price,
     price_change_1d |-> change_1d,
     price_change_7d |-> change_7d,
     volume_24h      |-> volume,
     avg_volume_7d   |-> avg_volume,
     volume_ratio    |-> RoundHalfEven(100 * volume, avg_volume)]

\* The market rows the model draws snapshots from.
MarketRows ==
    { MarketRow("AAPL",    15000,  500,  1000, 300, 100),
      MarketRow("AAPL",    15000,  500, -1000, 300, 100),
      MarketRow("MSFT",    30000, -500, -1000, 300, 100),
      MarketRow("BTC-USD", 99999,    0,  1000, 250, 100),
      MarketRow("NVDA",    45000, -300,     0, 200, 100),
      MarketRow("ETH-USD",   250,    1,   -50, 250, 100),
      MarketRow("TSLA",    20000, 6000,  2500, 100, 100),
      MarketRow("COIN",     9000,   35,    80,   9,   4) }

\* pd.DataFrame(data): the rows in list order under a RangeIndex 0..n-1.
DataFrame(data) ==
    [cols |-> SnapshotColumns,
     rows |-> [i \in 1..Len(data) |-> [index |-> i - 1] @@ data[i]]]

SeqsUpTo(S, n) == UNION { [1..k -> S] : k \in 1..n }

\* The snapshots a provider can return: at least one row (the mock provider
\* returns a row per configured symbol, the OpenBB provider raises instead
\* of returning an empty table).
Snapshots == { DataFrame(data) : data \in SeqsUpTo(MarketRows, MaxRows) }

MinVolumeRatios == {100, 200, 300}
MinPriceChanges == {-5000, -500, 500}
MaxPriceChanges == {-500, 500, 5000}

Criteria ==
    [min_volume_ratio    : MinVolumeRatios,
     min_price_change_1d : MinPriceChanges,
     max_price_change_1d : MaxPriceChanges]

----------------------------------------------------------------------------
(* Filter Stage *)

\* Faulty variant of FilterRows: the volume bound taken as exclusive.
FilterRowsExclusive(rows, min_volume_ratio, min_price_change_1d, max_price_change_1d) ==
    LET VolumeOk(r) == r.volume_ratio > min_volume_ratio
        PriceOk(r)  == /\ r.price_change_1d >= min_price_change_1d
                       /\ r.price_change_1d <= max_price_change_1d
    IN  SelectSeq(SelectSeq(rows, VolumeOk), PriceOk)

\* Faulty variant of FilterRows: the volume comparison the wrong way round.
FilterRowsReversed(rows, min_volume_ratio, min_price_change_1d, max_price_change_1d) ==
    LET VolumeOk(r) == r.volume_ratio <= min_volume_ratio
        PriceOk(r)  == /\ r.price_change_1d >= min_price_change_1d
                       /\ r.price_change_1d <= max_price_change_1d
    IN  SelectSeq(SelectSeq(rows, VolumeOk), PriceOk)

\* Faulty variant of FilterRows: the two price bounds joined by | instead of &.
FilterRowsEitherBound(rows, min_volume_ratio, min_price_change_1d, max_price_change_1d) ==
    LET VolumeOk(r) == r.volume_ratio >= min_volume_ratio
        PriceOk(r)  == \/ r.price_change_1d >= min_price_change_1d
                       \/ r.price_change_1d <= max_price_change_1d
    IN  SelectSeq(SelectSeq(rows, VolumeOk), PriceOk)

\* df[df['volume_ratio'] >= m] and then df[(p >= lo) & (p <= hi)]: boolean
\* indexing keeps the selected rows, in order, under their index labels.
FilterRows(rows, min_volume_ratio, min_price_change_1d, max_price_change_1d) ==
    LET VolumeOk(r) == r.volume_ratio >= min_volume_ratio
        PriceOk(r)  == /\ r.price_change_1d >= min_price_change_1d
                       /\ r.price_change_1d <= max_price_change_1d
    IN  SelectSeq(SelectSeq(rows, VolumeOk), PriceOk)

\* Faulty variant of ApplyFilters: the table it is given is filtered in place and
\* returned.
ApplyFiltersInPlace(h, src, c) ==
    [heap |-> [h EXCEPT ![src] =
                  [cols |-> h[src].cols,
                   rows |-> FilterRows(h[src].rows, c.min_volume_ratio,
                                       c.min_price_change_1d,
                                       c.max_price_change_1d)]],
     ret  |-> src]

\* _apply_filters(df, ...): the heap after the call and the reference it
\* returns; the result is a new object (df.copy()), src is left alone.
ApplyFilters(h, src, c) ==
    [heap |-> [h EXCEPT !["copy"] =
                  [cols |-> h[src].cols,
                   rows |-> FilterRows(h[src].rows, c.min_volume_ratio,
                                       c.min_price_change_1d,
                                       c.max_price_change_1d)]],
     ret  |-> "copy"]

----------------------------------------------------------------------------
(* Scoring Stage *)

\* Faulty variant of TrendConsistency: a zero product counted as agreement.
TrendConsistencyNonNegative(r) ==
    IF r.price_change_1d * r.price_change_7d >= 0 THEN 150 ELSE 100

\* 1.0 as the base, 1.5 where the 1-day and 7-day changes have a strictly
\* positive product.
TrendConsistency(r) ==
    IF r.price_change_1d * r.price_change_7d > 0 THEN 150 ELSE 100

\* Faulty variant of MomentumScore: the signed change in place of its magnitude.
MomentumScoreSigned(r, trend_consistency) ==
    RoundHalfEven(r.volume_ratio * r.price_change_1d * trend_consistency,
                  10000)

\* (volume_ratio * abs(price_change_1d) * trend_consistency).round(2): the
\* product of three numbers in hundredths is in millionths.
MomentumScore(r, trend_consistency) ==
    RoundHalfEven(r.volume_ratio * Abs(r.price_change_1d) * trend_consistency,
                  10000)

\* The two column assignments, done on the table itself: every row gains
\* trend_consistency and momentum_score, nothing else changes.
AddScoreColumns(t) ==
    [cols |-> t.cols \cup ScoreColumns,
     rows |-> [i \in 1..Len(t.rows) |->
                 LET r  == t.rows[i]
                     tc == TrendConsistency(r)
                 IN  [x \in (DOMAIN r) \cup ScoreColumns |->
                        IF x = "trend_consistency" THEN tc
                        ELSE IF x = "momentum_score" THEN MomentumScore(r, tc)
                        ELSE r[x]]]]

\* Faulty variant of InSortOrder: ascending=True.
InSortOrderAscending(a, b) == a.momentum_score <= b.momentum_score

\* The order sort_values must produce.
InSortOrder(a, b) == a.momentum_score >= b.momentum_score

\* Faulty variant of SortValues: one row per symbol survives the sort
\* (drop_duplicates('symbol') after sorting).
SortValuesDropDuplicates(t) ==
    LET n == Len(t.rows)
        sorted == { [i \in 1..n |-> t.rows[p[i]]] :
                      p \in { q \in Permutations(1..n) :
                                \A i \in 1..n, j \in 1..n :
                                   i < j => InSortOrder(t.rows[q[i]], t.rows[q[j]]) } }
        First(rows) ==
            LET keep == { i \in 1..n :
                            \A j \in 1..(i - 1) : rows[j].symbol # rows[i].symbol }
                Kept(r) == \E i \in keep : rows[i] = r
            IN  SelectSeq(rows, Kept)
    IN  { [cols |-> t.cols, rows |-> First(rows)] : rows \in sorted }

\* df.sort_values('momentum_score', ascending=False): a new frame holding the
\* same rows in non-increasing score order.  The default sort kind is not
\* stable, so every order of rows with equal scores is a possible result.
SortValues(t) ==
    LET n == Len(t.rows)
    IN  { [cols |-> t.cols, rows |-> [i \in 1..n |-> t.rows[p[i]]]] :
            p \in { q \in Permutations(1..n) :
                      \A i \in 1..n, j \in 1..n :
                         i < j => InSortOrder(t.rows[q[i]], t.rows[q[j]]) } }

\* Faulty variant of CalculateMomentumScore: no early return for an empty table.
CalculateMomentumScoreNoGuard(h, arg) ==
    LET scored == AddScoreColumns(h[arg])
    IN  { [heap |-> [h EXCEPT ![arg] = scored, !["sorted"] = s],
           ret  |-> "sorted"] : s \in SortValues(scored) }

\* Faulty variant of CalculateMomentumScore: sort_values(..., inplace=True), the
\* argument itself is reordered and returned.
CalculateMomentumScoreInPlace(h, arg) ==
    IF Len(h[arg].rows) = 0
    THEN { [heap |-> h, ret |-> arg] }
    ELSE { [heap |-> [h EXCEPT ![arg] = s], ret |-> arg] :
             s \in SortValues(AddScoreColumns(h[arg])) }

\* Faulty variant of CalculateMomentumScore: the frame built by an earlier
\* call is kept and handed out again.
CalculateMomentumScoreMemoized(h, arg) ==
    IF h["sorted"] # NoFrame
    THEN { [heap |-> h, ret |-> "sorted"] }
    ELSE IF Len(h[arg].rows) = 0
    THEN { [heap |-> h, ret |-> arg] }
    ELSE { [heap |-> [h EXCEPT ![arg] = AddScoreColumns(h[arg]), !["sorted"] = s],
            ret  |-> "sorted"] : s \in SortValues(AddScoreColumns(h[arg])) }

\* _calculate_momentum_score(df): the possible (heap, returned reference)
\* pairs.  An empty table is returned as it is; otherwise the argument gets
\* the score columns in place and a sorted new frame is returned.
CalculateMomentumScore(h, arg) ==
    IF Len(h[arg].rows) = 0
    THEN { [heap |-> h, ret |-> arg] }
    ELSE LET scored == AddScoreColumns(h[arg])
         IN  { [heap |-> [h EXCEPT ![arg] = scored, !["sorted"] = s],
                ret  |-> "sorted"] : s \in SortValues(scored) }

----------------------------------------------------------------------------
(* Summary Aggregator *)

RECURSIVE SumOf(_, _)
\* df[col].sum(): the sum of one column over the rows.
SumOf(rows, col) ==
    IF rows = <<>> THEN 0 ELSE Head(rows)[col] + SumOf(Tail(rows), col)

\* f"Bullish Momentum: {n} assets" and its bearish twin, as the pieces the
\* format string joins.
CategoryLine(label, n) == <<label, " Momentum: ", n, " assets">>

KeyError == [error |-> "KeyError"]

\* Faulty variant of IsBullish: an unchanged price counted as bullish.
IsBullishOrFlat(r) == r.price_change_1d >= 0

\* df['price_change_1d'] > 0
IsBullish(r) == r.price_change_1d > 0

\* df['price_change_1d'] < 0
IsBearish(r) == r.price_change_1d < 0

\* Faulty variant of RoundedMean: the mean cut off after two decimals.
TruncatedMean(rows, col) == SumOf(rows, col) \div Len(rows)

\* round(df[col].mean(), 2)
RoundedMean(rows, col) == RoundHalfEven(SumOf(rows, col), Len(rows))

\* get_screening_summary(df): the zero summary for an empty table, without
\* reading any column; otherwise the counts and the rounded means.  Reading
\* a column the table does not have raises KeyError.
GetScreeningSummary(t) ==
    IF Len(t.rows) = 0
    THEN [total_found        |-> 0,
          avg_volume_ratio   |-> 0,
          avg_momentum_score |-> 0,
          top_categories     |-> <<>>]
    ELSE IF ~({"price_change_1d", "volume_ratio", "momentum_score"} \subseteq t.cols)
    THEN KeyError
    ELSE LET bullish == SelectSeq(t.rows, IsBullish)
             bearish == SelectSeq(t.rows, IsBearish)
             categories ==
                 (IF Len(bullish) > 0
                  THEN <<CategoryLine("Bullish", Len(bullish))>> ELSE <<>>)
                 \o
                 (IF Len(bearish) > 0
                  THEN <<CategoryLine("Bearish", Len(bearish))>> ELSE <<>>)
         IN  [total_found        |-> Len(t.rows),
              avg_volume_ratio   |-> RoundedMean(t.rows, "volume_ratio"),
              avg_momentum_score |-> RoundedMean(t.rows, "momentum_score"),
              top_categories     |-> categories]

----------------------------------------------------------------------------
(* The page's own filter-and-score helper *)

\* Faulty variant of AppApplyScreeningFilters: the page's copy of the filter
\* drifts from the screener's and takes the volume bound as exclusive.
AppApplyScreeningFiltersExclusive(h, raw, c) ==
    LET VolumeOk(r) == r.volume_ratio > c.min_volume_ratio
        PriceOk(r)  == /\ r.price_change_1d >= c.min_price_change_1d
                       /\ r.price_change_1d <= c.max_price_change_1d
        copied == [h EXCEPT !["copy"] =
                      [cols |-> h[raw].cols,
                       rows |-> SelectSeq(SelectSeq(h[raw].rows, VolumeOk),
                                          PriceOk)]]
    IN  CalculateMomentumScore(copied, "copy")

\* apply_screening_filters(raw_data_df, ...): the same two selections written
\* out again in app.py, a copy of the selected rows, and then the screener's
\* _calculate_momentum_score on that copy.
AppApplyScreeningFilters(h, raw, c) ==
    LET VolumeOk(r) == r.volume_ratio >= c.min_volume_ratio
        PriceOk(r)  == /\ r.price_change_1d >= c.min_price_change_1d
                       /\ r.price_change_1d <= c.max_price_change_1d
        copied == [h EXCEPT !["copy"] =
                      [cols |-> h[raw].cols,
                       rows |-> SelectSeq(SelectSeq(h[raw].rows, VolumeOk),
                                          PriceOk)]]
    IN  CalculateMomentumScore(copied, "copy")

----------------------------------------------------------------------------
(* Pipeline *)

Init ==
    /\ heap = [o \in ObjIds |-> NoFrame]
    /\ df = NoRef
    /\ filtered_df = NoRef
    /\ results_df = NoRef
    /\ criteria = NoCriteria
    /\ summary = NoSummary
    /\ pc = "idle"
    /\ tasks = <<>>
    /\ completed = <<>>
    /\ raised = NoError
    /\ cache = NoEntry
    /\ last_load = NoLoad

\* df = await self.data_provider.get_market_data(symbols)
GetMarketData ==
    /\ pc = "idle"
    /\ \E snapshot \in Snapshots :
          heap' = [heap EXCEPT !["snapshot"] = snapshot]
    /\ df' = "snapshot"
    /\ pc' = "fetched"
    /\ UNCHANGED <<filtered_df, results_df, criteria, summary>>
    /\ UNCHANGED <<fetchVars, cacheVars>>

\* filtered_df = self._apply_filters(df, ...)
ApplyFiltersStep ==
    /\ pc = "fetched"
    /\ \E c \in Criteria :
          LET call == ApplyFilters(heap, df, c)
          IN  /\ criteria' = c
              /\ heap' = call.heap
              /\ filtered_df' = call.ret
    /\ pc' = "filtered"
    /\ UNCHANGED <<df, results_df, summary>>
    /\ UNCHANGED <<fetchVars, cacheVars>>

\* filtered_df = self._calculate_momentum_score(filtered_df)
CalculateMomentumScoreStep ==
    /\ pc = "filtered"
    /\ \E call \in CalculateMomentumScore(heap, filtered_df) :
          /\ heap' = call.heap
          /\ results_df' = call.ret
    /\ pc' = "scored"
    /\ UNCHANGED <<df, filtered_df, criteria, summary>>
    /\ UNCHANGED <<fetchVars, cacheVars>>

\* results_df = apply_screening_filters(raw_data_df, ...) on the page
AppApplyScreeningFiltersStep ==
    /\ pc = "fetched"
    /\ \E c \in Criteria :
          /\ criteria' = c
          /\ \E call \in AppApplyScreeningFilters(heap, df, c) :
                /\ heap' = call.heap
                /\ results_df' = call.ret
    /\ filtered_df' = "copy"
    /\ pc' = "scored"
    /\ UNCHANGED <<df, summary>>
    /\ UNCHANGED <<fetchVars, cacheVars>>

\* summary = get_screening_summary(results_df)
GetScreeningSummaryStep ==
    /\ pc = "scored"
    /\ summary' = GetScreeningSummary(heap[results_df])
    /\ pc' = "summarized"
    /\ UNCHANGED <<heap, df, filtered_df, results_df, criteria>>
    /\ UNCHANGED <<fetchVars, cacheVars>>

\* The frames of a finished run are dropped; the snapshot stays.
Dropped(h) == [o \in ObjIds |-> IF o = "snapshot" THEN h[o] ELSE NoFrame]

\* A rerun of the page within the cache's validity: the cached snapshot is
\* screened again under criteria chosen afresh.
Rerun ==
    /\ pc = "summarized"
    /\ heap' = Dropped(heap)
    /\ filtered_df' = NoRef
    /\ results_df' = NoRef
    /\ criteria' = NoCriteria
    /\ summary' = NoSummary
    /\ pc' = "fetched"
    /\ UNCHANGED df
    /\ UNCHANGED <<fetchVars, cacheVars>>

\* The refresh button: st.cache_data.clear() and a rerun that fetches anew.
Refresh ==
    /\ pc = "summarized"
    /\ heap' = [o \in ObjIds |-> NoFrame]
    /\ df' = NoRef
    /\ filtered_df' = NoRef
    /\ results_df' = NoRef
    /\ criteria' = NoCriteria
    /\ summary' = NoSummary
    /\ pc' = "idle"
    /\ UNCHANGED <<fetchVars, cacheVars>>

Next ==
    \/ GetMarketData
    \/ ApplyFiltersStep
    \/ CalculateMomentumScoreStep
    \/ AppApplyScreeningFiltersStep
    \/ GetScreeningSummaryStep
    \/ Rerun
    \/ Refresh

Spec == Init /\ [][Next]_vars

----------------------------------------------------------------------------
(* Batch acquisition: OpenBBDataProvider.get_market_data *)

\* Number of symbols requested in one batch.
MaxSymbols == 3

\* The head of the configured symbol list, STOCK_SYMBOLS + CRYPTO_SYMBOLS.
TopSymbols == <<"AAPL", "MSFT", "GOOGL", "AMZN", "META", "NVDA", "NFLX">>

\* get_top_symbols(limit): the first symbols of the configured list.
RequestedSymbols == SubSeq(TopSymbols, 1, MaxSymbols)

Pending == [kind |-> "pending"]

\* What _fetch_symbol_data_async can end with for one symbol: the processed
\* row, None (no historical data, or the data call failed), or an exception
\* raised while processing (too little history), wrapped and re-raised.
FetchOutcomes(symbol) ==
    { [kind |-> "row", row |-> MarketRow(symbol, 15000, 500, 1000, 300, 100)],
      [kind |-> "row", row |-> MarketRow(symbol, 9000, -300, 0, 9, 4)],
      [kind |-> "none"],
      [kind |-> "exception", message |-> <<"Error processing ", symbol>>] }

\* Faulty variant of GatherResults: results taken in the order the tasks
\* finished (as_completed) instead of the order they were given.
GatherAsCompleted(t, order) == [k \in 1..Len(order) |-> t[order[k]]]

\* await asyncio.gather(*tasks, return_exceptions=True): one result per task,
\* in the order of the tasks whatever the order they finished in; an
\* exception is a result like another.
GatherResults(t, order) == [i \in 1..Len(t) |-> t[i]]

\* Faulty variant of CollectData: a symbol without data ends the batch.
CollectDataAllOrNothing(results) ==
    LET IsRow(x) == x.kind = "row"
        found == SelectSeq(results, IsRow)
    IN  IF Len(found) < Len(results) THEN <<>>
        ELSE [k \in 1..Len(found) |-> found[k].row]

\* The loop over the results: a result that is neither an exception nor None
\* is appended to data; the others are only reported.
CollectData(results) ==
    LET IsRow(x) == x.kind # "exception" /\ x.kind # "none"
        found == SelectSeq(results, IsRow)
    IN  [k \in 1..Len(found) |-> found[k].row]

\* tasks = [self._fetch_symbol_data_async(symbol, period) for symbol in symbols]
StartGather ==
    /\ pc = "idle"
    /\ tasks' = [i \in 1..Len(RequestedSymbols) |-> Pending]
    /\ completed' = <<>>
    /\ pc' = "gathering"
    /\ UNCHANGED <<heap, df, filtered_df, results_df, criteria, summary,
                   raised, cacheVars>>

\* One task of the batch runs to its end; the tasks finish in any order.
FetchSymbolData(i) ==
    /\ pc = "gathering"
    /\ tasks[i] = Pending
    /\ \E outcome \in FetchOutcomes(RequestedSymbols[i]) :
          tasks' = [tasks EXCEPT ![i] = outcome]
    /\ completed' = Append(completed, i)
    /\ UNCHANGED <<heap, df, filtered_df, results_df, criteria, summary, pc,
                   raised, cacheVars>>

\* gather returns once every task is done; the results are sorted into data,
\* and the call returns pd.DataFrame(data) or raises ConnectionError when
\* data is empty.
CollectResults ==
    /\ pc = "gathering"
    /\ \A i \in DOMAIN tasks : tasks[i] # Pending
    /\ LET data == CollectData(GatherResults(tasks, completed))
       IN  IF Len(data) = 0
           THEN /\ raised' = "ConnectionError"
                /\ pc' = "failed"
                /\ UNCHANGED <<heap, df>>
           ELSE /\ heap' = [heap EXCEPT !["snapshot"] = DataFrame(data)]
                /\ df' = "snapshot"
                /\ pc' = "fetched"
                /\ UNCHANGED raised
    /\ UNCHANGED <<filtered_df, results_df, criteria, summary, tasks,
                   completed, cacheVars>>

FetchNext ==
    \/ StartGather
    \/ \E i \in 1..Len(RequestedSymbols) : FetchSymbolData(i)
    \/ CollectResults

FetchSpec == Init /\ [][FetchNext]_vars

----------------------------------------------------------------------------
(* Repeated invocations on one engine *)

\* Largest number of rows of a snapshot screened repeatedly.
MaxHistoryRows == 2

HistorySnapshots ==
    { DataFrame(data) : data \in SeqsUpTo(MarketRows, MaxHistoryRows) }

\* df = await self.data_provider.get_market_data(symbols)
HistoryGetMarketData ==
    /\ pc = "idle"
    /\ \E snapshot \in HistorySnapshots :
          heap' = [heap EXCEPT !["snapshot"] = snapshot]
    /\ df' = "snapshot"
    /\ pc' = "fetched"
    /\ UNCHANGED <<filtered_df, results_df, criteria, summary,
                   fetchVars, cacheVars>>

\* The next invocation on the same snapshot, under criteria chosen afresh,
\* while the frames the earlier invocation built are still alive (its caller
\* still holds them): only the locals of the invocation start anew.
InvokeAgain ==
    /\ pc = "summarized"
    /\ filtered_df' = NoRef
    /\ results_df' = NoRef
    /\ criteria' = NoCriteria
    /\ summary' = NoSummary
    /\ pc' = "fetched"
    /\ UNCHANGED <<heap, df, fetchVars, cacheVars>>

HistoryNext ==
    \/ HistoryGetMarketData
    \/ ApplyFiltersStep
    \/ CalculateMomentumScoreStep
    \/ AppApplyScreeningFiltersStep
    \/ GetScreeningSummaryStep
    \/ InvokeAgain

HistorySpec == Init /\ [][HistoryNext]_vars

----------------------------------------------------------------------------
(* The page's snapshot cache: @st.cache_data(ttl=CACHE_TTL_SECONDS) *)

\* Validity window of a cached snapshot, in seconds.
CACHE_TTL_SECONDS == 300

\* Seconds that pass in one step of the clock.
TickSeconds == 150

\* Faulty variant of CacheValid: the decorator without its ttl argument.
CacheValidForever(c) == c # NoEntry

\* A stored entry is served while it is younger than the ttl.
CacheValid(c) == c # NoEntry /\ c.age < CACHE_TTL_SECONDS

\* raw_data_df = load_raw_market_data(DEFAULT_DATA_PROVIDER): a valid entry is
\* returned without running the function; otherwise the function runs, which
\* fetches from the provider, and its return value is stored; a call that
\* raises (the provider's ConnectionError) stores nothing.
LoadRawMarketData ==
    /\ pc = "idle"
    /\ IF CacheValid(cache)
       THEN /\ heap' = [heap EXCEPT !["snapshot"] = cache.value]
            /\ df' = "snapshot"
            /\ last_load' = "hit"
            /\ pc' = "fetched"
            /\ UNCHANGED <<cache, raised>>
       ELSE \/ \E snapshot \in HistorySnapshots :
                  /\ cache' = [value |-> snapshot, age |-> 0]
                  /\ heap' = [heap EXCEPT !["snapshot"] = snapshot]
                  /\ df' = "snapshot"
                  /\ last_load' = "fetch"
                  /\ pc' = "fetched"
                  /\ UNCHANGED raised
            \/ /\ cache' = NoEntry
               /\ raised' = "ConnectionError"
               /\ last_load' = "fetch_failed"
               /\ pc' = "failed"
               /\ UNCHANGED <<heap, df>>
    /\ UNCHANGED <<filtered_df, results_df, criteria, summary, tasks, completed>>

\* The state a new run of the page script starts from.
NewRun ==
    /\ heap' = [o \in ObjIds |-> NoFrame]
    /\ df' = NoRef
    /\ filtered_df' = NoRef
    /\ results_df' = NoRef
    /\ criteria' = NoCriteria
    /\ summary' = NoSummary
    /\ raised' = NoError
    /\ pc' = "idle"
    /\ UNCHANGED <<tasks, completed, last_load>>

\* A widget change (other filter criteria) reruns the script from the top.
PageRerun ==
    /\ pc \in {"summarized", "failed"}
    /\ NewRun
    /\ UNCHANGED cache

\* The refresh button, or the retry button of the error view:
\* st.cache_data.clear() and st.rerun().
ClearCacheAndRerun ==
    /\ pc \in {"summarized", "failed"}
    /\ NewRun
    /\ cache' = NoEntry

\* Time passes between two runs of the page.
Elapse ==
    /\ pc = "idle"
    /\ cache # NoEntry
    /\ cache.age < CACHE_TTL_SECONDS
    /\ cache' = [cache EXCEPT !.age =
                    IF @ + TickSeconds > CACHE_TTL_SECONDS
                    THEN CACHE_TTL_SECONDS ELSE @ + TickSeconds]
    /\ UNCHANGED <<heap, df, filtered_df, results_df, criteria, summary, pc,
                   fetchVars, last_load>>

CacheNext ==
    \/ LoadRawMarketData
    \/ AppApplyScreeningFiltersStep
    \/ GetScreeningSummaryStep
    \/ PageRerun
    \/ ClearCacheAndRerun
    \/ Elapse

CacheSpec == Init /\ [][CacheNext]_vars

----------------------------------------------------------------------------
(* Properties *)

\* The rows of a table, as a set (a row carries its index label).
RowSet(t) == { t.rows[i] : i \in DOMAIN t.rows }

\* The inclusion rule of the Filter Stage, stated on one row.
MeetsCriteria(r, c) ==
    /\ r.volume_ratio >= c.min_volume_ratio
    /\ c.min_price_change_1d <= r.price_change_1d
    /\ r.price_change_1d <= c.max_price_change_1d

\* C1: after _apply_filters, the returned table holds exactly the rows of the
\* input that have volume_ratio >= min_volume_ratio and price_change_1d inside
\* [min_price_change_1d, max_price_change_1d], both bounds inclusive: every
\* output row meets both conditions, every excluded input row fails one.
C1_FilterKeepsExactlyMatchingRows ==
    pc = "filtered" =>
        /\ \A r \in RowSet(heap[filtered_df]) :
              r \in RowSet(heap[df]) /\ MeetsCriteria(r, criteria)
        /\ \A r \in RowSet(heap[df]) \ RowSet(heap[filtered_df]) :
              ~MeetsCriteria(r, criteria)

\* A filter call that kept a row sitting exactly on the volume bound and on a
\* price bound, and excluded another row.
C1_Witness ==
    /\ pc = "filtered"
    /\ \E r \in RowSet(heap[filtered_df]) :
          /\ r.volume_ratio = criteria.min_volume_ratio
          /\ r.price_change_1d = criteria.max_price_change_1d
    /\ \E r \in RowSet(heap[filtered_df]) :
          r.price_change_1d = criteria.min_price_change_1d
    /\ RowSet(heap[df]) \ RowSet(heap[filtered_df]) # {}

SameSign(a, b) == (a > 0 /\ b > 0) \/ (a < 0 /\ b < 0)

\* C2: in a scored non-empty table every row has trend_consistency 1.5 when
\* its 1-day and 7-day changes are both positive or both negative, and 1.0 in
\* every other case (a zero on either side, or opposite signs).
C2_TrendConsistencyValues ==
    pc = "scored" =>
        \A r \in RowSet(heap[results_df]) :
            /\ r.trend_consistency \in {100, 150}
            /\ r.trend_consistency = 150
                  <=> SameSign(r.price_change_1d, r.price_change_7d)

\* A scored table with a row whose 1-day change is zero, a row whose 7-day
\* change is zero or of the opposite sign, and a row that earned 1.5.
C2_Witness ==
    /\ pc = "scored"
    /\ \E r \in RowSet(heap[results_df]) :
          r.price_change_1d = 0 /\ r.price_change_7d # 0
             /\ r.trend_consistency = 100
    /\ \E r \in RowSet(heap[results_df]) :
          r.price_change_1d * r.price_change_7d <= 0 /\ r.price_change_1d # 0
             /\ r.trend_consistency = 100
    /\ \E r \in RowSet(heap[results_df]) : r.trend_consistency = 150

\* C3: in a scored table every momentum_score is the hundredth nearest to
\* volume_ratio * |price_change_1d| * trend_consistency (3.0, 5.0, 10.0 gives
\* 22.5), is never negative for a non-negative ratio, and is the same for two
\* rows that differ only by the sign of both price changes.
C3_MomentumScoreValue ==
    pc = "scored" =>
        /\ \A r \in RowSet(heap[results_df]) :
              LET exact == r.volume_ratio * Abs(r.price_change_1d)
                              * r.trend_consistency
              IN  /\ 2 * Abs(10000 * r.momentum_score - exact) <= 10000
                  /\ r.volume_ratio >= 0 => r.momentum_score >= 0
                  /\ (r.volume_ratio = 300 /\ r.price_change_1d = 500
                         /\ r.price_change_7d = 1000)
                        => r.momentum_score = 2250
        /\ \A r, q \in RowSet(heap[results_df]) :
              (/\ q.volume_ratio = r.volume_ratio
               /\ q.price_change_1d = -r.price_change_1d
               /\ q.price_change_7d = -r.price_change_7d)
                 => q.momentum_score = r.momentum_score

\* A scored table holding the 22.5 row, its mirror image with both changes
\* negated, and a row whose exact product has more than two decimals.
C3_Witness ==
    /\ pc = "scored"
    /\ \E r, q \in RowSet(heap[results_df]) :
          /\ r.price_change_1d = 500 /\ r.price_change_7d = 1000
          /\ q.price_change_1d = -500 /\ q.price_change_7d = -1000
          /\ r.momentum_score = 2250 /\ q.momentum_score = 2250
    /\ \E r \in RowSet(heap[results_df]) :
          (r.volume_ratio * Abs(r.price_change_1d) * r.trend_consistency)
             % 10000 # 0

\* C4: the table returned by the Scoring Stage is non-increasing in
\* momentum_score from each row to the next.
C4_SortedByScoreDescending ==
    pc = "scored" =>
        LET out == heap[results_df].rows
        IN  \A i \in 1..(Len(out) - 1) :
               out[i].momentum_score >= out[i + 1].momentum_score

\* A scored table of three rows with different scores that the input held in
\* another order.
C4_Witness ==
    /\ pc = "scored"
    /\ Len(heap[results_df].rows) = 3
    /\ heap[results_df].rows[1].momentum_score
          > heap[results_df].rows[2].momentum_score
    /\ heap[results_df].rows[2].momentum_score
          > heap[results_df].rows[3].momentum_score
    /\ heap[filtered_df].rows[1].momentum_score
          < heap[filtered_df].rows[3].momentum_score

\* The number of rows of a table that satisfy a test.
CountRows(t, Test(_)) == Cardinality({ i \in DOMAIN t.rows : Test(t.rows[i]) })

RECURSIVE Total(_, _, _)
\* The sum of one column over the rows with index labels in a set of
\* positions, written without the summary's own helper.
Total(rows, col, positions) ==
    IF positions = {} THEN 0
    ELSE LET i == CHOOSE j \in positions : TRUE
         IN  rows[i][col] + Total(rows, col, positions \ {i})

\* C5: for a non-empty scored table the summary's total_found is the number
\* of rows, and avg_volume_ratio and avg_momentum_score are the hundredths
\* nearest to the means of volume_ratio and momentum_score over all rows,
\* rows with an unchanged price included.
C5_SummaryCountAndMeans ==
    (pc = "summarized" /\ Len(heap[results_df].rows) > 0) =>
        LET rows == heap[results_df].rows
            n    == Len(rows)
        IN  /\ summary.total_found = n
            /\ 2 * Abs(n * summary.avg_volume_ratio
                         - Total(rows, "volume_ratio", 1..n)) <= n
            /\ 2 * Abs(n * summary.avg_momentum_score
                         - Total(rows, "momentum_score", 1..n)) <= n

\* A summary over three rows, one of them with an unchanged price, whose mean
\* volume ratio is not a whole number of hundredths and rounds upwards.
C5_Witness ==
    /\ pc = "summarized"
    /\ summary.total_found = 3
    /\ \E r \in RowSet(heap[results_df]) : r.price_change_1d = 0
    /\ 3 * summary.avg_volume_ratio
          > Total(heap[results_df].rows, "volume_ratio", 1..3)

\* C6: for a non-empty scored table, top_categories holds the bullish line
\* with the count n of rows with price_change_1d > 0 exactly when n > 0, the
\* bearish line with the count m of rows with price_change_1d < 0 exactly
\* when m > 0, the bullish line first, and nothing else; rows with an
\* unchanged price are in neither count, so n + m <= total_found.
C6_TopCategories ==
    (pc = "summarized" /\ Len(heap[results_df].rows) > 0) =>
        LET t == heap[results_df]
            Rising(r)  == r.price_change_1d > 0
            Falling(r) == r.price_change_1d < 0
            n == CountRows(t, Rising)
            m == CountRows(t, Falling)
            bull == <<"Bullish", " Momentum: ", n, " assets">>
            bear == <<"Bearish", " Momentum: ", m, " assets">>
        IN  /\ summary.top_categories =
                  IF n > 0 /\ m > 0 THEN <<bull, bear>>
                  ELSE IF n > 0 THEN <<bull>>
                  ELSE IF m > 0 THEN <<bear>>
                  ELSE <<>>
            /\ Len(summary.top_categories) <= 2
            /\ n + m <= summary.total_found

\* A summary with rows found and no category line: only unchanged prices.
C6_Witness ==
    /\ pc = "summarized"
    /\ summary.total_found > 0
    /\ summary.top_categories = <<>>

\* A summary with both lines, one asset each, as in the two-row scenario.
C6_WitnessBoth ==
    /\ pc = "summarized"
    /\ summary.total_found = 2
    /\ summary.top_categories = << <<"Bullish", " Momentum: ", 1, " assets">>,
                                   <<"Bearish", " Momentum: ", 1, " assets">> >>

ZeroSummary ==
    [total_found |-> 0, avg_volume_ratio |-> 0, avg_momentum_score |-> 0,
     top_categories |-> <<>>]

\* C7: the Scoring Stage hands an empty table back as it is, with no score
\* column derived and no new frame built; the summary of an empty table is
\* exactly the zero summary; and a run in which nothing matches ends with
\* that summary, never with a failed read of a missing column.
C7_EmptyInputIdentity ==
    /\ (pc \in {"scored", "summarized"} /\ Len(heap[filtered_df].rows) = 0) =>
          /\ results_df = filtered_df
          /\ heap[results_df].rows = <<>>
          /\ heap[results_df].cols = SnapshotColumns
          /\ heap["sorted"] = NoFrame
    /\ (pc = "summarized" /\ Len(heap[results_df].rows) = 0) =>
          summary = ZeroSummary
    /\ pc = "summarized" => summary # KeyError

\* A finished run over a snapshot with rows of which none matched.
C7_Witness ==
    /\ pc = "summarized"
    /\ Len(heap[df].rows) > 0
    /\ heap[results_df].rows = <<>>
    /\ "momentum_score" \notin heap[results_df].cols
    /\ summary = ZeroSummary

\* C8: with the snapshot and the price bounds fixed, the rows kept under a
\* min_volume_ratio b are among the rows kept under any a <= b.
C8_FilterMonotone ==
    pc = "filtered" =>
        \A b \in MinVolumeRatios :
            LET other == ApplyFilters(heap, df,
                            [criteria EXCEPT !.min_volume_ratio = b])
                kept  == RowSet(other.heap[other.ret])
            IN  /\ b >= criteria.min_volume_ratio
                      => kept \subseteq RowSet(heap[filtered_df])
                /\ b <= criteria.min_volume_ratio
                      => RowSet(heap[filtered_df]) \subseteq kept

\* A filter call whose result loses a row, but not all, under a higher bound.
C8_Witness ==
    /\ pc = "filtered"
    /\ \E b \in MinVolumeRatios :
          LET other == ApplyFilters(heap, df,
                          [criteria EXCEPT !.min_volume_ratio = b])
              kept  == RowSet(other.heap[other.ret])
          IN  /\ b > criteria.min_volume_ratio
              /\ kept # {}
              /\ kept # RowSet(heap[filtered_df])
              /\ kept \subseteq RowSet(heap[filtered_df])

\* The statement of C9 as first made: a call of _calculate_momentum_score on
\* a non-empty table leaves the table it was given with the columns and
\* values it had.  The code adds the two score columns to that table.
C9_Original_ArgumentUntouched ==
    [][CalculateMomentumScoreStep => heap'[filtered_df] = heap[filtered_df]]_vars

\* C9 (amended): a call of _calculate_momentum_score on a non-empty table
\* adds trend_consistency and momentum_score to the table it was given and
\* changes nothing else of it: the rows, their order, their index labels and
\* every snapshot field stay as they were; the sorted rows are returned as a
\* new frame; and the snapshot table is not touched, under either caller.
C9_ArgumentGainsOnlyScoreColumns ==
    [][/\ (CalculateMomentumScoreStep /\ Len(heap[filtered_df].rows) > 0) =>
            LET before == heap[filtered_df]
                after  == heap'[filtered_df]
            IN  /\ after.cols = before.cols \cup ScoreColumns
                /\ Len(after.rows) = Len(before.rows)
                /\ \A i \in DOMAIN before.rows :
                      \A x \in DOMAIN before.rows[i] :
                          after.rows[i][x] = before.rows[i][x]
                /\ results_df' # filtered_df
                /\ heap[results_df'] = NoFrame
                /\ heap'[df] = heap[df]
       /\ AppApplyScreeningFiltersStep => heap'[df] = heap[df]
      ]_vars

\* A scored run in which the caller's copy holds the score columns in its
\* unsorted input order, the result is another frame, and the snapshot has
\* the snapshot columns only.
C9_Witness ==
    /\ pc = "scored"
    /\ results_df = "sorted" /\ filtered_df = "copy"
    /\ ScoreColumns \subseteq heap[filtered_df].cols
    /\ heap[filtered_df].rows # heap[results_df].rows
    /\ heap[df].cols = SnapshotColumns

\* C10: _apply_filters leaves the table it was given as it was and returns
\* another object, and the scoring that follows, which writes into the
\* returned table, leaves the input table as it was too.
C10_FilterHasNoSideEffects ==
    [][/\ ApplyFiltersStep =>
            /\ heap'[df] = heap[df]
            /\ filtered_df' # df
            /\ heap[filtered_df'] = NoFrame
       /\ CalculateMomentumScoreStep => heap'[df] = heap[df]
      ]_vars

\* A run in which the filter dropped a row of the snapshot and the returned
\* table was then given score columns, while the snapshot still has every
\* row and no score column.
C10_Witness ==
    /\ pc = "scored"
    /\ df = "snapshot" /\ filtered_df = "copy"
    /\ Len(heap[filtered_df].rows) > 0
    /\ Len(heap[df].rows) > Len(heap[filtered_df].rows)
    /\ "momentum_score" \in heap[filtered_df].cols
    /\ heap[df] \in Snapshots

\* C11: _apply_filters always returns a table with the columns of its input,
\* never an error; the table is empty when no row matches, when
\* min_price_change_1d > max_price_change_1d whatever the snapshot holds, and
\* when the input table itself has no rows (here: an empty filter result
\* filtered once more, under every criteria triple).
C11_FilterTotalAndEmptyResults ==
    pc = "filtered" =>
        LET out == heap[filtered_df]
        IN  /\ out # NoFrame
            /\ out.cols = heap[df].cols
            /\ criteria.min_price_change_1d > criteria.max_price_change_1d
                  => out.rows = <<>>
            /\ (\A r \in RowSet(heap[df]) : ~MeetsCriteria(r, criteria))
                  => out.rows = <<>>
            /\ out.rows = <<>> =>
                  \A c \in Criteria :
                      LET again == ApplyFilters(heap, filtered_df, c)
                      IN  /\ again.heap[again.ret].rows = <<>>
                          /\ again.heap[again.ret].cols = out.cols

\* A filter call under min_price_change_1d > max_price_change_1d on a snapshot
\* holding a row that sits on one of the two bounds and passes the volume
\* bound: the result is empty.
C11_Witness ==
    /\ pc = "filtered"
    /\ criteria.min_price_change_1d > criteria.max_price_change_1d
    /\ \E r \in RowSet(heap[df]) :
          /\ r.volume_ratio >= criteria.min_volume_ratio
          /\ r.price_change_1d = criteria.min_price_change_1d
    /\ heap[filtered_df].rows = <<>>

\* The positions of the tasks that ended with a row.
Produced == { i \in DOMAIN tasks : tasks[i].kind = "row" }

\* C12: whatever each symbol's fetch ended with and in whatever order the
\* fetches finished, get_market_data returns a table holding exactly one row
\* per symbol that produced one, in the order of the requested symbols; it
\* raises ConnectionError exactly when no symbol produced a row; and no other
\* exception ever reaches the caller.
C12_BatchToleratesPartialFailure ==
    /\ raised \in {NoError, "ConnectionError"}
    /\ pc \in {"fetched", "failed"} =>
          /\ pc = "failed" <=> Produced = {}
          /\ raised = "ConnectionError" <=> Produced = {}
          /\ pc = "failed" => heap["snapshot"] = NoFrame
          /\ pc = "fetched" =>
                LET rows == heap[df].rows
                IN  /\ Len(rows) = Cardinality(Produced)
                    /\ \A i \in Produced :
                          LET k == Cardinality({ j \in Produced : j <= i })
                          IN  /\ rows[k].symbol = RequestedSymbols[i]
                              /\ \A x \in DOMAIN tasks[i].row :
                                    rows[k][x] = tasks[i].row[x]

\* A batch in which one symbol raised, two produced rows, and the later of
\* the two finished first: the table holds the two rows in request order.
C12_Witness ==
    /\ pc = "fetched"
    /\ \E i \in DOMAIN tasks : tasks[i].kind = "exception"
    /\ Cardinality(Produced) = 2
    /\ \E a, b \in DOMAIN completed :
          /\ a < b /\ completed[a] > completed[b]
          /\ {completed[a], completed[b]} = Produced
    /\ Len(heap[df].rows) = 2

\* A batch in which every symbol ended without a row, one of them by an
\* exception: the call raised ConnectionError.
C12_WitnessNoData ==
    /\ pc = "failed"
    /\ raised = "ConnectionError"
    /\ \E i \in DOMAIN tasks : tasks[i].kind = "exception"
    /\ \E i \in DOMAIN tasks : tasks[i].kind = "none"

\* A heap holding a snapshot table and nothing of any earlier invocation.
FreshHeap(t) == [snapshot |-> t, copy |-> NoFrame, sorted |-> NoFrame]

\* The tables a first invocation of filter and score can return for a
\* snapshot table and criteria.
FirstResults(t, c) ==
    { call.heap[call.ret] :
        call \in CalculateMomentumScore(
                    ApplyFilters(FreshHeap(t), "snapshot", c).heap, "copy") }

\* C13: whatever invocations came before and whatever frames they left
\* behind, the filtered table, the scored table (its momentum_score values
\* with it) and the summary of an invocation are those a first invocation on
\* the same snapshot and criteria gives.
C13_ResultIndependentOfEarlierCalls ==
    /\ pc = "filtered" =>
          heap[filtered_df] =
              ApplyFilters(FreshHeap(heap[df]), "snapshot", criteria).heap["copy"]
    /\ pc \in {"scored", "summarized"} =>
          heap[results_df] \in FirstResults(heap[df], criteria)
    /\ pc = "summarized" =>
          summary \in { GetScreeningSummary(t) :
                           t \in FirstResults(heap[df], criteria) }

\* A later invocation that has just filtered, and kept another number of rows
\* than the earlier invocation whose scored frame is still on the heap.
C13_Witness ==
    /\ pc = "filtered"
    /\ heap["sorted"] # NoFrame
    /\ heap[filtered_df].rows # <<>>
    /\ Len(heap["sorted"].rows) # Len(heap[filtered_df].rows)

\* The tables _apply_filters followed by _calculate_momentum_score can
\* return, as screen_movers runs them after its fetch.
ScreenerResults(h, src, c) ==
    LET filtered == ApplyFilters(h, src, c)
    IN  { call.heap[call.ret] :
            call \in CalculateMomentumScore(filtered.heap, filtered.ret) }

\* The tables apply_screening_filters can return.
PageResults(h, src, c) ==
    { call.heap[call.ret] : call \in AppApplyScreeningFilters(h, src, c) }

\* C14: for the snapshot and criteria of every invocation, the page's
\* apply_screening_filters and the screener's _apply_filters followed by
\* _calculate_momentum_score can return the same tables (same rows, same
\* scores, same order, rows with equal scores in whatever order the sort
\* leaves them), and apply_screening_filters leaves the snapshot as it was.
C14_PagePathEqualsScreenerPath ==
    [][/\ (pc = "fetched" /\ pc' # "fetched") =>
             PageResults(heap, df, criteria') = ScreenerResults(heap, df, criteria')
       /\ AppApplyScreeningFiltersStep =>
             /\ heap'[df] = heap[df]
             /\ heap'[results_df'] \in ScreenerResults(heap, df, criteria')
      ]_vars

\* A page run whose result holds two of the three rows of the snapshot, with
\* different scores in descending order, and the snapshot without a score
\* column.
C14_Witness ==
    /\ pc = "scored"
    /\ Len(heap[df].rows) = 3
    /\ Len(heap[results_df].rows) = 2
    /\ heap[results_df].rows[1].momentum_score
          > heap[results_df].rows[2].momentum_score
    /\ heap[results_df] \in PageResults(heap, df, criteria)
    /\ ScoreColumns \cap heap[df].cols = {}

\* A row cut down to its index label and the snapshot columns.
SnapshotPart(r) == [x \in SnapshotColumns \cup {"index"} |-> r[x]]

\* C15: a call of _calculate_momentum_score on a non-empty table returns the
\* rows it was given, each exactly once (rows sharing a symbol included), in
\* some order, every snapshot field of every row as it was and exactly the
\* two score columns added; so every row of a scored result still meets the
\* criteria of the filter that ran before.
C15_ScoringPreservesRows ==
    [][/\ (CalculateMomentumScoreStep /\ Len(heap[filtered_df].rows) > 0) =>
            LET given    == heap[filtered_df].rows
                returned == heap'[results_df'].rows
            IN  /\ Len(returned) = Len(given)
                /\ \A i \in DOMAIN given :
                      Cardinality({ k \in DOMAIN returned :
                                      SnapshotPart(returned[k]) = given[i] }) = 1
                /\ \A k \in DOMAIN returned :
                      DOMAIN returned[k] = DOMAIN given[1] \cup ScoreColumns
                /\ heap'[results_df'].cols = SnapshotColumns \cup ScoreColumns
       /\ pc' = "scored" =>
            \A r \in RowSet(heap'[results_df']) : MeetsCriteria(r, criteria')
      ]_vars

\* A scored result of three rows, two of them for the same symbol, returned
\* in another order than they were given in.
C15_Witness ==
    /\ pc = "scored"
    /\ Len(heap[results_df].rows) = 3
    /\ \E i, j \in DOMAIN heap[results_df].rows :
          /\ i # j
          /\ heap[results_df].rows[i].symbol = heap[results_df].rows[j].symbol
    /\ heap[results_df].rows[1].index # 0
    /\ \A r \in RowSet(heap[results_df]) : MeetsCriteria(r, criteria)

\* C16: a load finds a stored snapshot younger than CACHE_TTL_SECONDS and then
\* returns that snapshot without fetching, or finds none (first load, expiry,
\* cleared cache, failed fetch) and then fetches; a fetch that succeeds is
\* stored, one that fails with the no-data condition stores nothing; and the
\* stored snapshot changes only by a load that fetches or by the refresh or
\* retry button, never by screening under other criteria.
C16_SnapshotCacheReuse ==
    [][/\ LoadRawMarketData =>
            /\ (cache # NoEntry /\ cache.age < CACHE_TTL_SECONDS) =>
                  /\ last_load' = "hit"
                  /\ cache' = cache
                  /\ heap'[df'] = cache.value
                  /\ pc' = "fetched"
            /\ (cache = NoEntry \/ cache.age >= CACHE_TTL_SECONDS) =>
                  last_load' \in {"fetch", "fetch_failed"}
            /\ last_load' = "fetch" =>
                  /\ cache' = [value |-> heap'[df'], age |-> 0]
                  /\ pc' = "fetched"
            /\ last_load' = "fetch_failed" =>
                  /\ cache' = NoEntry
                  /\ raised' = "ConnectionError"
                  /\ pc' = "failed"
       /\ (cache # NoEntry /\ cache' # NoEntry /\ cache'.value # cache.value) =>
            (LoadRawMarketData /\ last_load' = "fetch")
       /\ (cache # NoEntry /\ cache' = NoEntry) =>
            \/ ClearCacheAndRerun
            \/ (LoadRawMarketData /\ last_load' = "fetch_failed"
                   /\ cache.age >= CACHE_TTL_SECONDS)
       /\ (AppApplyScreeningFiltersStep \/ GetScreeningSummaryStep \/ PageRerun) =>
            cache' = cache
      ]_vars

\* A rerun inside the validity window that was served from the cache and
\* screened: the table screened is the stored snapshot, now 150 seconds old.
C16_Witness ==
    /\ pc = "summarized"
    /\ last_load = "hit"
    /\ cache # NoEntry
    /\ cache.age > 0 /\ cache.age < CACHE_TTL_SECONDS
    /\ heap[df] = cache.value

\* A run whose fetch failed: nothing is stored, the error view is shown.
C16_WitnessFailed ==
    /\ pc = "failed"
    /\ last_load = "fetch_failed"
    /\ cache = NoEntry

====
